---- MODULE Spec2Model ----
(***************************************************************************)
(* A model of the optimizing Modbus client (package modbus of opmodbus):   *)
(* the operation model and its validation, the contiguous-range merge      *)
(* optimizer, the differential write filter, the flat address space and    *)
(* the batching executor with its lock.                                    *)
(*                                                                         *)
(* The specifications of the module:                                       *)
(*   SpecOpt  the merge optimizer as a pure function: Init draws a batch   *)
(*            of valid ops, the actions apply optimizeRead/optimizeWrite   *)
(*            once and then again on the result;                           *)
(*   Spec     the client: concurrent callers of BatchRead, BatchWrite,     *)
(*            Read and Write on one Client, the mutex and the transport;   *)
(*   SpecSlice  the flat byte buffer containers.Slice on its own;          *)
(*   SpecSolo   one caller and one batch call, over the whole register     *)
(*            range and with a slave whose registers hold known bytes;     *)
(*   SpecLive   two callers whose calls run to their end under a fair      *)
(*            mutex and a transport that always returns.                   *)
(***************************************************************************)
EXTENDS Integers, Sequences, FiniteSets, TLC

VARIABLES
    optKind,    \* SpecOpt: "read" or "write", which optimizer is under test
    optIn,      \* SpecOpt: the input batch of ops (all valid)
    optOut,     \* SpecOpt: optimize(optIn), once computed
    optOut2,    \* SpecOpt: optimize(optOut), once computed
    optPc,      \* SpecOpt: "input" -> "optimized" -> "reoptimized"
    mtx,        \* Client.mtx: 0 when unlocked, otherwise the caller holding it
    pc,         \* per caller: position inside its call
    call,       \* per caller: the call it makes and the call's local variables
    wire,       \* every transport call made so far, in order
    dev,        \* the slave's holding registers that writes have set
    dev0,       \* the slave's holding registers before the first call
    slBuf,      \* SpecSlice: the Slice under test
    slCall,     \* SpecSlice: the last call of Set / Get, its arguments and result
    slSteps     \* SpecSlice: the number of calls made on slBuf

optVars == <<optKind, optIn, optOut, optOut2, optPc>>
cliVars == <<mtx, pc, call, wire, dev, dev0>>
slVars == <<slBuf, slCall, slSteps>>
vars == <<optKind, optIn, optOut, optOut2, optPc, mtx, pc, call, wire, dev, dev0,
          slBuf, slCall, slSteps>>

(***************************************************************************)
(* Bounds of the model.                                                    *)
(***************************************************************************)
MaxOps == 4         \* SpecOpt: longest input batch given to the optimizer
MaxBatch == 2       \* Spec: longest batch a caller passes to BatchRead/BatchWrite

(***************************************************************************)
(* Program constants.                                                      *)
(***************************************************************************)
maxFunc16Quantity == 123
maxFunc3Quantity == 2047
Uint16Mod == 65536          \* register and quantity are uint16

\* uint16 arithmetic: Go wraps silently
U16(n) == n % Uint16Mod

Min(a, b) == IF a < b THEN a ELSE b

Range(s) == {s[k] : k \in 1..Len(s)}

SeqsUpTo(S, n) == UNION { [1..k -> S] : k \in 0..n }

\* the bytes of a test value: n bytes that depend on the register they go to
MkBytes(n, seed) == [k \in 1..n |-> (seed * 7 + k) % 256]

(***************************************************************************)
(* Operation model: readOp{register, quantity}, writeOp{register,          *)
(* quantity, value} and their validation.                                  *)
(***************************************************************************)
readOp(r, q) == [register |-> r, quantity |-> q]

writeOp(r, q, v) == [register |-> r, quantity |-> q, value |-> v]

\* readOp.validate: nil or ErrTooManyRegisters
readOp_validate(ro) ==
    IF ro.quantity > maxFunc3Quantity THEN "ErrTooManyRegisters" ELSE "nil"

\* writeOp.validate with the quantity check removed
writeOp_validate_nocheck(wo) == "nil"

\* writeOp.validate: nil or ErrTooManyRegisters; the length of value is not looked at
writeOp_validate(wo) ==
    IF wo.quantity > maxFunc16Quantity THEN "ErrTooManyRegisters" ELSE "nil"

\* newReadOp(r, q): the op and validate()'s error
newReadOp(r, q) == [op |-> readOp(r, q), err |-> readOp_validate(readOp(r, q))]

\* newWriteOp(r, v): quantity is uint16(len(v) / 2)
newWriteOp(r, v) ==
    LET wo == writeOp(r, U16(Len(v) \div 2), v)
    IN  [op |-> wo, err |-> writeOp_validate(wo)]

(***************************************************************************)
(* sort.Slice by register.  For the batch lengths of this model (fewer     *)
(* than 7 elements) every Go release sorts by straight insertion, which    *)
(* keeps the order of ops with equal registers.                            *)
(***************************************************************************)
RECURSIVE insertByRegister(_, _)
insertByRegister(sorted, op) ==
    IF sorted = <<>> THEN <<op>>
    ELSE IF op.register < sorted[Len(sorted)].register
         THEN Append(insertByRegister(SubSeq(sorted, 1, Len(sorted) - 1), op),
                     sorted[Len(sorted)])
         ELSE Append(sorted, op)

RECURSIVE sortByRegister(_)
sortByRegister(s) ==
    IF s = <<>> THEN <<>>
    ELSE insertByRegister(sortByRegister(SubSeq(s, 1, Len(s) - 1)), s[Len(s)])

(***************************************************************************)
(* optimizeRead: the scan loops, index for index.  i and j are the loop    *)
(* variables (1-based here); the inner loop runs j to the end of preopt    *)
(* and increments i on every merge.                                        *)
(***************************************************************************)
RECURSIVE optimizeRead_inner(_, _, _, _)
optimizeRead_inner(preopt, op, i, j) ==
    IF j > Len(preopt) THEN [op |-> op, i |-> i]
    ELSE IF /\ preopt[j].register = U16(op.register + op.quantity)
            /\ U16(op.quantity + preopt[j].quantity) <= maxFunc3Quantity
         THEN optimizeRead_inner(preopt,
                  [op EXCEPT !.quantity = U16(op.quantity + preopt[j].quantity)],
                  i + 1, j + 1)
         ELSE optimizeRead_inner(preopt, op, i, j + 1)

RECURSIVE optimizeRead_outer(_, _, _)
optimizeRead_outer(preopt, i, opt) ==
    IF i > Len(preopt) THEN opt
    ELSE LET r == optimizeRead_inner(preopt, preopt[i], i, i + 1)
         IN  optimizeRead_outer(preopt, r.i + 1, Append(opt, r.op))

\* the scan with the ceiling looked at only before a merge, on the accumulator alone
RECURSIVE optimizeRead_inner_late(_, _, _, _)
optimizeRead_inner_late(preopt, op, i, j) ==
    IF j > Len(preopt) THEN [op |-> op, i |-> i]
    ELSE IF op.quantity >= maxFunc3Quantity THEN [op |-> op, i |-> i]
    ELSE IF preopt[j].register = U16(op.register + op.quantity)
         THEN optimizeRead_inner_late(preopt,
                  [op EXCEPT !.quantity = U16(op.quantity + preopt[j].quantity)],
                  i + 1, j + 1)
         ELSE optimizeRead_inner_late(preopt, op, i, j + 1)

RECURSIVE optimizeRead_outer_late(_, _, _)
optimizeRead_outer_late(preopt, i, opt) ==
    IF i > Len(preopt) THEN opt
    ELSE LET r == optimizeRead_inner_late(preopt, preopt[i], i, i + 1)
         IN  optimizeRead_outer_late(preopt, r.i + 1, Append(opt, r.op))

optimizeRead_late(r) == optimizeRead_outer_late(sortByRegister(r), 1, <<>>)

\* optimizeRead without the sort
optimizeRead_unsorted(r) == optimizeRead_outer(r, 1, <<>>)

\* optimizeRead that never merges
optimizeRead_nomerge(r) == sortByRegister(r)

optimizeRead(r) == optimizeRead_outer(sortByRegister(r), 1, <<>>)

(***************************************************************************)
(* optimizeWrite: the same scan; a merge also appends the merged op's      *)
(* value to the accumulator's.                                             *)
(***************************************************************************)
RECURSIVE optimizeWrite_inner(_, _, _, _)
optimizeWrite_inner(preopt, op, i, j) ==
    IF j > Len(preopt) THEN [op |-> op, i |-> i]
    ELSE IF /\ preopt[j].register = U16(op.register + op.quantity)
            /\ U16(op.quantity + preopt[j].quantity) <= maxFunc16Quantity
         THEN optimizeWrite_inner(preopt,
                  [op EXCEPT !.quantity = U16(op.quantity + preopt[j].quantity),
                             !.value = op.value \o preopt[j].value],
                  i + 1, j + 1)
         ELSE optimizeWrite_inner(preopt, op, i, j + 1)

RECURSIVE optimizeWrite_outer(_, _, _)
optimizeWrite_outer(preopt, i, opt) ==
    IF i > Len(preopt) THEN opt
    ELSE LET r == optimizeWrite_inner(preopt, preopt[i], i, i + 1)
         IN  optimizeWrite_outer(preopt, r.i + 1, Append(opt, r.op))

\* optimizeWrite with the merged value put in front of the accumulated one
RECURSIVE optimizeWrite_inner_prepend(_, _, _, _)
optimizeWrite_inner_prepend(preopt, op, i, j) ==
    IF j > Len(preopt) THEN [op |-> op, i |-> i]
    ELSE IF /\ preopt[j].register = U16(op.register + op.quantity)
            /\ U16(op.quantity + preopt[j].quantity) <= maxFunc16Quantity
         THEN optimizeWrite_inner_prepend(preopt,
                  [op EXCEPT !.quantity = U16(op.quantity + preopt[j].quantity),
                             !.value = preopt[j].value \o op.value],
                  i + 1, j + 1)
         ELSE optimizeWrite_inner_prepend(preopt, op, i, j + 1)

RECURSIVE optimizeWrite_outer_prepend(_, _, _)
optimizeWrite_outer_prepend(preopt, i, opt) ==
    IF i > Len(preopt) THEN opt
    ELSE LET r == optimizeWrite_inner_prepend(preopt, preopt[i], i, i + 1)
         IN  optimizeWrite_outer_prepend(preopt, r.i + 1, Append(opt, r.op))

optimizeWrite_prepend(w) == optimizeWrite_outer_prepend(sortByRegister(w), 1, <<>>)

optimizeWrite(w) == optimizeWrite_outer(sortByRegister(w), 1, <<>>)

(***************************************************************************)
(* Types and values (package types).  A Value is modelled by its type and  *)
(* the number it holds: a Uint16 by its 16 bits, a Float32 / Float32CDAB   *)
(* by the 32 bits of math.Float32bits.  Raw stands for a Type / Value the  *)
(* caller implements: it occupies size registers and holds its bytes.      *)
(***************************************************************************)
Uint16Type == [name |-> "Uint16", size |-> 1]
Float32Type == [name |-> "Float32", size |-> 2]
Float32CDABType == [name |-> "Float32CDAB", size |-> 2]
RawType(n) == [name |-> "Raw", size |-> n]

\* the values: v is the number held, raw the bytes of a caller's own Value
Uint16(n) == [type |-> "Uint16", v |-> n, raw |-> <<>>]
Float32(bits) == [type |-> "Float32", v |-> bits, raw |-> <<>>]
Float32CDAB(bits) == [type |-> "Float32CDAB", v |-> bits, raw |-> <<>>]
Raw(b) == [type |-> "Raw", v |-> 0, raw |-> b]
NoValue == [type |-> "nil", v |-> 0, raw |-> <<>>]

\* Type.Size()
Size(t) == t.size

\* binary.BigEndian.Uint16 / Uint32 and PutUint16 / PutUint32
BigEndian(b) ==
    IF Len(b) = 2 THEN b[1] * 256 + b[2]
    ELSE b[1] * 16777216 + b[2] * 65536 + b[3] * 256 + b[4]

PutUint16(n) == << (n \div 256) % 256, n % 256 >>

PutUint32(n) ==
    << (n \div 16777216) % 256, (n \div 65536) % 256, (n \div 256) % 256, n % 256 >>

\* the words of a 4-byte value swapped: fp[0:2] = r[2:4], fp[2:4] = r[0:2]
SwapWords(b) == << b[3], b[4], b[1], b[2] >>

\* Value.Bytes()
Bytes(v) ==
    CASE v.type = "Uint16" -> PutUint16(v.v)
      [] v.type = "Float32" -> PutUint32(v.v)
      [] v.type = "Float32CDAB" -> SwapWords(PutUint32(v.v))
      [] OTHER -> v.raw

\* Type.Converter()(b): the Value, or ErrInvalidInput when len(b) is not the type's
Converter(t, b) ==
    IF Len(b) # 2 * t.size
    THEN [value |-> NoValue, err |-> "ErrInvalidInput"]
    ELSE [err |-> "nil",
          value |->
            CASE t.name = "Uint16" -> Uint16(BigEndian(b))
              [] t.name = "Float32" -> Float32(BigEndian(b))
              [] t.name = "Float32CDAB" -> Float32CDAB(BigEndian(SwapWords(b)))
              [] OTHER -> Raw(b)]

\* convertReadOp(r): quantity is the type's size
convertReadOp(r) ==
    LET ro == readOp(r.register, Size(r.type))
    IN  [op |-> ro, err |-> readOp_validate(ro)]

\* convertWriteOp(w): quantity is uint16(len(bytes) / 2)
convertWriteOp(w) ==
    LET wo == writeOp(w.register, U16(Len(Bytes(w.value)) \div 2), Bytes(w.value))
    IN  [op |-> wo, err |-> writeOp_validate(wo)]

(***************************************************************************)
(* containers.Slice: a zero-filled byte buffer of len bytes.  Only the     *)
(* bytes that were set are stored (at, by 0-based offset); every other     *)
(* byte of the buffer is 0.                                                *)
(***************************************************************************)
NewSlice(size) == [len |-> size, at |-> <<>>]

SliceByte(s, off) == IF off \in DOMAIN s.at THEN s.at[off] ELSE 0

\* Slice.Set copying to the start of the slice instead of s[offset:]
Slice_Set_atstart(s, offset, data) ==
    IF s.len <= offset \/ offset < 0 THEN [s |-> s, n |-> 0]
    ELSE LET n == Min(Len(data), s.len)
         IN  [s |-> [s EXCEPT !.at =
                        [o \in (DOMAIN s.at) \cup (0..(n - 1)) |->
                            IF o < n THEN data[o + 1] ELSE s.at[o]]],
              n |-> n]

\* Slice.Set: copy(s[offset:], data) and the number of bytes copied
Slice_Set(s, offset, data) ==
    IF s.len <= offset \/ offset < 0 THEN [s |-> s, n |-> 0]
    ELSE LET n == Min(Len(data), s.len - offset)
         IN  [s |-> [s EXCEPT !.at =
                        [o \in (DOMAIN s.at) \cup (offset..(offset + n - 1)) |->
                            IF o >= offset /\ o < offset + n
                            THEN data[o - offset + 1] ELSE s.at[o]]],
              n |-> n]

\* the bytes of a Slice, first to last
SliceBytes(s) == [k \in 1..s.len |-> SliceByte(s, k - 1)]

\* the largest int: int has 32 bits on the 32-bit builds (386, arm) and 64 on
\* the others, with the same arithmetic; the model has the int of the former
IntMax == 2147483647

\* a + b in int: the sum wraps around
IntAdd(a, b) ==
    IF a >= 0 /\ b >= 0 /\ b > IntMax - a
    THEN (a - IntMax - 1) + (b - IntMax - 1)
    ELSE IF a < 0 /\ b < 0 /\ b < (0 - IntMax - 1) - a
    THEN (a + IntMax + 1) + (b + IntMax + 1)
    ELSE a + b

\* Slice.Get: nil, s[offset:] or s[offset : offset+size]; the slice expression
\* s[offset : offset+size] panics when its high bound is below its low bound
Slice_Get(s, offset, size) ==
    IF offset < 0 \/ size < 0 THEN [bytes |-> <<>>, panic |-> FALSE]
    ELSE IF s.len <= offset THEN [bytes |-> <<>>, panic |-> FALSE]
    ELSE IF s.len <= IntAdd(offset, size)
         THEN [bytes |-> [k \in 1..(s.len - offset) |-> SliceByte(s, offset + k - 1)],
               panic |-> FALSE]
         ELSE IF IntAdd(offset, size) < offset
              THEN [bytes |-> <<>>, panic |-> TRUE]
              ELSE [bytes |-> [k \in 1..size |-> SliceByte(s, offset + k - 1)],
                    panic |-> FALSE]

maxUint16 == 65536

(***************************************************************************)
(* The transport (goburrow's modbus.Client) and the slave behind it.  A    *)
(* register nobody has written holds its own number.                       *)
(***************************************************************************)
RegBytes(d, r) == IF r \in DOMAIN d THEN d[r] ELSE PutUint16(r)

\* the bytes a successful ReadHoldingRegisters(register, quantity) returns
ReadHoldingRegisters(d, register, quantity) ==
    [k \in 1..(2 * quantity) |->
        RegBytes(d, U16(register + ((k - 1) \div 2)))[((k - 1) % 2) + 1]]

\* the slave after a successful WriteMultipleRegisters(register, quantity, value)
WriteMultipleRegisters(d, register, quantity, value) ==
    LET written == { U16(register + k) : k \in 0..(quantity - 1) }
    IN  [r \in (DOMAIN d) \cup written |->
            IF \E k \in 0..(quantity - 1) : r = U16(register + k)
            THEN LET k == CHOOSE k \in 0..(quantity - 1) : r = U16(register + k)
                 IN  << value[2 * k + 1], value[2 * k + 2] >>
            ELSE d[r]]

(***************************************************************************)
(* The callers and what they may ask for.                                  *)
(***************************************************************************)
Callers == {1, 2}

\* a nil Registers map
Nil == [nil |-> TRUE, regs |-> <<>>]

Read(r, t) == [register |-> r, type |-> t]

Write(r, v) == [register |-> r, value |-> v]

\* reads: a float at 2..3 and a word at 4 (contiguous), a float at 9..10, and a
\* type of 2048 registers
ReadRequests ==
    { Read(2, Float32CDABType), Read(4, Uint16Type), Read(9, Float32Type),
      Read(7, RawType(2048)) }

\* writes: words at 2 and 3 (contiguous), three bytes at 5, and 124 registers at 8
WriteRequests ==
    { Write(2, Uint16(515)), Write(3, Uint16(1029)),
      Write(5, Raw(MkBytes(3, 5))), Write(8, Raw(MkBytes(248, 8))) }

\* oldData: none, or a snapshot that agrees with the writes at 2 and 8 and not at 3
Snapshots ==
    { Nil,
      [nil |-> FALSE,
       regs |-> [r \in {2, 3, 8} |->
                   CASE r = 2 -> Uint16(515)
                     [] r = 3 -> Uint16(7)
                     [] OTHER -> Raw(MkBytes(248, 8))]] }

NoCall ==
    [kind |-> "none", reqs |-> <<>>, oldData |-> Nil, ops |-> <<>>, idx |-> 0,
     results |-> <<>>, err |-> "nil", errIndex |-> 0,
     errRegister |-> 0, value |-> NoValue, values |-> <<>>]

NoSliceCall ==
    [op |-> "none", offset |-> 0, size |-> 0, data |-> <<>>,
     before |-> NewSlice(0), n |-> 0, bytes |-> <<>>, panic |-> FALSE]

SliceInitValues ==
    /\ slBuf = NewSlice(0)
    /\ slCall = NoSliceCall
    /\ slSteps = 0

Init ==
    /\ mtx = 0
    /\ dev0 = <<>>
    /\ SliceInitValues
    /\ pc = [p \in Callers |-> "idle"]
    /\ call = [p \in Callers |-> NoCall]
    /\ wire = <<>>
    /\ dev = <<>>
    /\ optKind = "none"
    /\ optIn = <<>>
    /\ optOut = <<>>
    /\ optOut2 = <<>>
    /\ optPc = "off"

\* a return that leaves the mutex as it is
Unlock_skipped(m) == m

\* defer c.mtx.Unlock(): the mutex is free once the method has returned
Unlock(m) == 0

\* sync.Mutex.Lock returns only when nobody holds the mutex
Lockable_always(m) == TRUE

Lockable(m) == m = 0

\* one transport call as it appears on the wire
WireCall(p, fn, op, ok) ==
    [caller |-> p, kind |-> call[p].kind, fn |-> fn, index |-> call[p].idx,
     register |-> op.register, quantity |-> op.quantity,
     value |-> IF fn = "WriteMultipleRegisters" THEN op.value ELSE <<>>,
     ok |-> ok, holder |-> mtx]

\* the ops of a batch, or the first validation error
RECURSIVE convertAll(_, _, _)
convertAll(reqs, k, acc) ==
    IF k > Len(reqs) THEN [ops |-> acc, err |-> "nil"]
    ELSE LET c == IF "type" \in DOMAIN reqs[k]
                  THEN convertReadOp(reqs[k]) ELSE convertWriteOp(reqs[k])
         IN  IF c.err # "nil" THEN [ops |-> <<>>, err |-> c.err]
             ELSE convertAll(reqs, k + 1, Append(acc, c.op))

\* the filter keeping every request whatever the snapshot holds
diffRetained_keepall(reqs, oldData, k) == reqs

\* the filter dropping every request whose register the snapshot holds
RECURSIVE diffRetained_byRegister(_, _, _)
diffRetained_byRegister(reqs, oldData, k) ==
    IF k > Len(reqs) THEN <<>>
    ELSE LET op == reqs[k]
             keep == \/ oldData.nil
                     \/ op.register \notin DOMAIN oldData.regs
         IN  (IF keep THEN <<op>> ELSE <<>>)
                 \o diffRetained_byRegister(reqs, oldData, k + 1)

\* BatchWrite's differential filter: the requests that are converted and sent
RECURSIVE diffRetained(_, _, _)
diffRetained(reqs, oldData, k) ==
    IF k > Len(reqs) THEN <<>>
    ELSE LET op == reqs[k]
             keep == \/ oldData.nil
                     \/ op.register \notin DOMAIN oldData.regs
                     \/ Bytes(op.value) # Bytes(oldData.regs[op.register])
         IN  (IF keep THEN <<op>> ELSE <<>>) \o diffRetained(reqs, oldData, k + 1)

(***************************************************************************)
(* BatchRead.                                                              *)
(***************************************************************************)
\* BatchRead up to the call of batchRead: convert and validate every request,
\* return the first error, otherwise optimize.  No lock is held.
BatchRead_call(p, ops) ==
    /\ pc[p] = "idle"
    /\ LET c == convertAll(ops, 1, <<>>)
       IN  IF c.err # "nil"
           THEN /\ call' = [call EXCEPT ![p] =
                       [NoCall EXCEPT !.kind = "BatchRead", !.reqs = ops, !.err = c.err]]
                /\ pc' = [pc EXCEPT ![p] = "done"]
           ELSE /\ call' = [call EXCEPT ![p] =
                       [NoCall EXCEPT !.kind = "BatchRead", !.reqs = ops,
                                      !.ops = optimizeRead(c.ops)]]
                /\ pc' = [pc EXCEPT ![p] = "batchRead_lock"]
    /\ UNCHANGED <<mtx, wire, dev, dev0, optVars, slVars>>

\* batchRead: c.mtx.Lock(), results := make(map)
batchRead_lock(p) ==
    /\ pc[p] = "batchRead_lock"
    /\ Lockable(mtx)
    /\ mtx' = p
    /\ call' = [call EXCEPT ![p].idx = 1]
    /\ pc' = [pc EXCEPT ![p] = "batchRead_loop"]
    /\ UNCHANGED <<wire, dev, dev0, optVars, slVars>>

\* results[v.register] = b
MapSet(m, key, b) ==
    [r \in (DOMAIN m) \cup {key} |-> IF r = key THEN b ELSE m[r]]

\* the loop of batchRead going on to the next op after a failed read
batchRead_step_goon(c, ok, b) ==
    [c EXCEPT !.results = IF ok THEN MapSet(c.results, c.ops[c.idx].register, b)
                          ELSE c.results,
              !.idx = c.idx + 1]

\* one iteration of batchRead's loop, given the outcome of c.read(v): store the
\* bytes and go on, or return the error with the op's 1-based index and register
batchRead_step(c, ok, b) ==
    IF ok
    THEN [c EXCEPT !.results = MapSet(c.results, c.ops[c.idx].register, b),
                   !.idx = c.idx + 1]
    ELSE [c EXCEPT !.err = "transport", !.errIndex = c.idx,
                   !.errRegister = c.ops[c.idx].register]

\* batchRead: one iteration of the loop, c.read(v) succeeding or failing
batchRead_iter(p, ok) ==
    /\ pc[p] = "batchRead_loop"
    /\ call[p].err = "nil"
    /\ call[p].idx <= Len(call[p].ops)
    /\ LET v == call[p].ops[call[p].idx]
       IN  /\ wire' = Append(wire, WireCall(p, "ReadHoldingRegisters", v, ok))
           /\ call' = [call EXCEPT ![p] =
                  batchRead_step(call[p], ok,
                                 ReadHoldingRegisters(dev, v.register, v.quantity))]
    /\ UNCHANGED <<mtx, pc, dev, dev0, optVars, slVars>>

\* mem.Set of every result, in ascending order of the registers
RECURSIVE assemble(_, _)
assemble(mem, results) ==
    IF DOMAIN results = {} THEN mem
    ELSE LET index == CHOOSE r \in DOMAIN results : \A q \in DOMAIN results : r <= q
             rest == [r \in (DOMAIN results) \ {index} |-> results[r]]
         IN  assemble(Slice_Set(mem, index * 2, results[index]).s, rest)

\* BatchRead's second loop: convert each request's bytes, stop at the first error
RECURSIVE extract(_, _, _, _)
extract(mem, ops, k, resultMap) ==
    IF k > Len(ops) THEN [values |-> resultMap, err |-> "nil"]
    ELSE LET op == ops[k]
             r == Converter(op.type,
                            Slice_Get(mem, op.register * 2, Size(op.type) * 2).bytes)
         IN  IF r.err # "nil" THEN [values |-> <<>>, err |-> r.err]
             ELSE extract(mem, ops, k + 1,
                      [x \in (DOMAIN resultMap) \cup {op.register} |->
                          IF x = op.register THEN r.value ELSE resultMap[x]])

\* batchRead returns (the deferred Unlock runs) and BatchRead finishes: the
\* error, or the results aligned in a flat Slice and converted per request
batchRead_return(p) ==
    /\ pc[p] = "batchRead_loop"
    /\ call[p].err # "nil" \/ call[p].idx > Len(call[p].ops)
    /\ mtx' = Unlock(mtx)
    /\ IF call[p].err # "nil"
       THEN call' = call
       ELSE LET mem == assemble(NewSlice(maxUint16), call[p].results)
                r == extract(mem, call[p].reqs, 1, <<>>)
            IN  call' = [call EXCEPT ![p].err = r.err, ![p].values = r.values]
    /\ pc' = [pc EXCEPT ![p] = "done"]
    /\ UNCHANGED <<wire, dev, dev0, optVars, slVars>>

(***************************************************************************)
(* BatchWrite.                                                             *)
(***************************************************************************)
\* BatchWrite up to the call of batchWrite: the differential filter when oldData
\* is given, convert and validate what it retains, return the first error,
\* otherwise optimize.  No lock is held.
BatchWrite_call(p, ops, oldData) ==
    /\ pc[p] = "idle"
    /\ LET c == convertAll(diffRetained(ops, oldData, 1), 1, <<>>)
       IN  IF c.err # "nil"
           THEN /\ call' = [call EXCEPT ![p] =
                       [NoCall EXCEPT !.kind = "BatchWrite", !.reqs = ops,
                                      !.oldData = oldData, !.err = c.err]]
                /\ pc' = [pc EXCEPT ![p] = "done"]
           ELSE /\ call' = [call EXCEPT ![p] =
                       [NoCall EXCEPT !.kind = "BatchWrite", !.reqs = ops,
                                      !.oldData = oldData,
                                      !.ops = optimizeWrite(c.ops)]]
                /\ pc' = [pc EXCEPT ![p] = "batchWrite_lock"]
    /\ UNCHANGED <<mtx, wire, dev, dev0, optVars, slVars>>

\* batchWrite: c.mtx.Lock()
batchWrite_lock(p) ==
    /\ pc[p] = "batchWrite_lock"
    /\ Lockable(mtx)
    /\ mtx' = p
    /\ call' = [call EXCEPT ![p].idx = 1]
    /\ pc' = [pc EXCEPT ![p] = "batchWrite_loop"]
    /\ UNCHANGED <<wire, dev, dev0, optVars, slVars>>

\* the loop of batchWrite going on to the next op after a failed write
batchWrite_step_goon(c, ok) == [c EXCEPT !.idx = c.idx + 1]

\* one iteration of batchWrite's loop, given the outcome of c.write(v): go on,
\* or return the error with the op's 1-based index and register
batchWrite_step(c, ok) ==
    IF ok
    THEN [c EXCEPT !.idx = c.idx + 1]
    ELSE [c EXCEPT !.err = "transport", !.errIndex = c.idx,
                   !.errRegister = c.ops[c.idx].register]

\* batchWrite: one iteration of the loop, c.write(v) succeeding or failing
batchWrite_iter(p, ok) ==
    /\ pc[p] = "batchWrite_loop"
    /\ call[p].err = "nil"
    /\ call[p].idx <= Len(call[p].ops)
    /\ LET v == call[p].ops[call[p].idx]
       IN  /\ wire' = Append(wire, WireCall(p, "WriteMultipleRegisters", v, ok))
           /\ dev' = IF ok
                     THEN WriteMultipleRegisters(dev, v.register, v.quantity, v.value)
                     ELSE dev
           /\ call' = [call EXCEPT ![p] = batchWrite_step(call[p], ok)]
    /\ UNCHANGED <<mtx, pc, dev0, optVars, slVars>>

\* batchWrite returns nil or the error; the deferred Unlock runs
batchWrite_return(p) ==
    /\ pc[p] = "batchWrite_loop"
    /\ call[p].err # "nil" \/ call[p].idx > Len(call[p].ops)
    /\ mtx' = Unlock(mtx)
    /\ pc' = [pc EXCEPT ![p] = "done"]
    /\ UNCHANGED <<call, wire, dev, dev0, optVars, slVars>>

(***************************************************************************)
(* Read and Write of a single value.                                       *)
(***************************************************************************)
\* Read is called; its first statement is c.mtx.Lock()
Read_call(p, register, t) ==
    /\ pc[p] = "idle"
    /\ call' = [call EXCEPT ![p] =
           [NoCall EXCEPT !.kind = "Read", !.reqs = <<Read(register, t)>>]]
    /\ pc' = [pc EXCEPT ![p] = "Read_lock"]
    /\ UNCHANGED <<mtx, wire, dev, dev0, optVars, slVars>>

\* Read: the lock is taken, then newReadOp validates under the lock
Read_lock(p) ==
    /\ pc[p] = "Read_lock"
    /\ Lockable(mtx)
    /\ mtx' = p
    /\ LET r == call[p].reqs[1]
           n == newReadOp(r.register, Size(r.type))
       IN  call' = [call EXCEPT ![p].err = n.err,
                                ![p].ops = IF n.err = "nil" THEN <<n.op>> ELSE <<>>,
                                ![p].idx = 1]
    /\ pc' = [pc EXCEPT ![p] = "Read_locked"]
    /\ UNCHANGED <<wire, dev, dev0, optVars, slVars>>

\* Read: res, err := c.read(op)
Read_transport(p, ok) ==
    /\ pc[p] = "Read_locked"
    /\ call[p].err = "nil"
    /\ call[p].idx = 1
    /\ LET op == call[p].ops[1]
       IN  /\ wire' = Append(wire, WireCall(p, "ReadHoldingRegisters", op, ok))
           /\ call' = [call EXCEPT
                  ![p].idx = 2,
                  ![p].err = IF ok THEN "nil" ELSE "transport",
                  ![p].results = IF ok
                                 THEN ReadHoldingRegisters(dev, op.register, op.quantity)
                                 ELSE <<>>]
    /\ UNCHANGED <<mtx, pc, dev, dev0, optVars, slVars>>

\* Read returns the validation error, the transport error or t.Converter()(res);
\* the deferred Unlock runs
Read_return(p) ==
    /\ pc[p] = "Read_locked"
    /\ call[p].err # "nil" \/ call[p].idx = 2
    /\ mtx' = Unlock(mtx)
    /\ IF call[p].err # "nil"
       THEN call' = call
       ELSE LET r == Converter(call[p].reqs[1].type, call[p].results)
            IN  call' = [call EXCEPT ![p].err = r.err, ![p].value = r.value]
    /\ pc' = [pc EXCEPT ![p] = "done"]
    /\ UNCHANGED <<wire, dev, dev0, optVars, slVars>>

\* Write is called; its first statement is c.mtx.Lock()
Write_call(p, register, value) ==
    /\ pc[p] = "idle"
    /\ call' = [call EXCEPT ![p] =
           [NoCall EXCEPT !.kind = "Write", !.reqs = <<Write(register, value)>>]]
    /\ pc' = [pc EXCEPT ![p] = "Write_lock"]
    /\ UNCHANGED <<mtx, wire, dev, dev0, optVars, slVars>>

\* Write: the lock is taken, then newWriteOp validates under the lock
Write_lock(p) ==
    /\ pc[p] = "Write_lock"
    /\ Lockable(mtx)
    /\ mtx' = p
    /\ LET w == call[p].reqs[1]
           n == newWriteOp(w.register, Bytes(w.value))
       IN  call' = [call EXCEPT ![p].err = n.err,
                                ![p].ops = IF n.err = "nil" THEN <<n.op>> ELSE <<>>,
                                ![p].idx = 1]
    /\ pc' = [pc EXCEPT ![p] = "Write_locked"]
    /\ UNCHANGED <<wire, dev, dev0, optVars, slVars>>

\* Write: return c.write(op)
Write_transport(p, ok) ==
    /\ pc[p] = "Write_locked"
    /\ call[p].err = "nil"
    /\ call[p].idx = 1
    /\ LET op == call[p].ops[1]
       IN  /\ wire' = Append(wire, WireCall(p, "WriteMultipleRegisters", op, ok))
           /\ dev' = IF ok
                     THEN WriteMultipleRegisters(dev, op.register, op.quantity, op.value)
                     ELSE dev
           /\ call' = [call EXCEPT ![p].idx = 2,
                                   ![p].err = IF ok THEN "nil" ELSE "transport"]
    /\ UNCHANGED <<mtx, pc, dev0, optVars, slVars>>

\* Write returns; the deferred Unlock runs
Write_return(p) ==
    /\ pc[p] = "Write_locked"
    /\ call[p].err # "nil" \/ call[p].idx = 2
    /\ mtx' = Unlock(mtx)
    /\ pc' = [pc EXCEPT ![p] = "done"]
    /\ UNCHANGED <<call, wire, dev, dev0, optVars, slVars>>

Next ==
    \/ \E p \in Callers, ops \in SeqsUpTo(ReadRequests, MaxBatch) : BatchRead_call(p, ops)
    \/ \E p \in Callers : batchRead_lock(p)
    \/ \E p \in Callers, ok \in BOOLEAN : batchRead_iter(p, ok)
    \/ \E p \in Callers : batchRead_return(p)
    \/ \E p \in Callers, ops \in SeqsUpTo(WriteRequests, MaxBatch), oldData \in Snapshots :
          BatchWrite_call(p, ops, oldData)
    \/ \E p \in Callers : batchWrite_lock(p)
    \/ \E p \in Callers, ok \in BOOLEAN : batchWrite_iter(p, ok)
    \/ \E p \in Callers : batchWrite_return(p)
    \/ \E p \in Callers, r \in ReadRequests : Read_call(p, r.register, r.type)
    \/ \E p \in Callers : Read_lock(p)
    \/ \E p \in Callers, ok \in BOOLEAN : Read_transport(p, ok)
    \/ \E p \in Callers : Read_return(p)
    \/ \E p \in Callers, w \in WriteRequests : Write_call(p, w.register, w.value)
    \/ \E p \in Callers : Write_lock(p)
    \/ \E p \in Callers, ok \in BOOLEAN : Write_transport(p, ok)
    \/ \E p \in Callers : Write_return(p)

Spec == Init /\ [][Next]_vars

(***************************************************************************)
(* Properties of the client.                                               *)
(***************************************************************************)
\* the transport calls of caller p, in the order they were made
WireOf(p) == SelectSeq(wire, LAMBDA e : e.caller = p)

HoldsLock(p) ==
    pc[p] \in {"batchRead_loop", "batchWrite_loop", "Read_locked", "Write_locked"}

WaitsForLock(p) ==
    pc[p] \in {"batchRead_lock", "batchWrite_lock", "Read_lock", "Write_lock"}

IsBatch(p) == call[p].kind \in {"BatchRead", "BatchWrite"}

\* C1: every transport call is made by the caller that holds the client's
\* mutex, at most one caller is inside a locked section at a time, and between
\* two transport calls of one batch there is no transport call of another call.
C1_BatchExclusive ==
    /\ \A k \in 1..Len(wire) : wire[k].holder = wire[k].caller
    /\ \A p \in Callers : HoldsLock(p) <=> mtx = p
    /\ \A a, b \in 1..Len(wire) :
          (a < b /\ wire[a].caller = wire[b].caller /\ wire[a].kind \in {"BatchRead", "BatchWrite"})
              => \A m \in a..b : wire[m].caller = wire[a].caller

\* a batch is between its first and its second transport call while another
\* caller that has transport calls to make waits for the mutex
C1_Witness ==
    \E p, q \in Callers :
        /\ p # q
        /\ IsBatch(p)
        /\ HoldsLock(p)
        /\ Len(call[p].ops) = 2
        /\ call[p].idx = 2
        /\ call[p].err = "nil"
        /\ WaitsForLock(q)

\* C2: a call that reports a transport error has made the failing transport
\* call twice, with the same register, quantity and value.
C2_RetriedOnce ==
    \A p \in Callers :
        call[p].err = "transport" =>
            \E a, b \in 1..Len(wire) :
                /\ a < b
                /\ wire[a].caller = p /\ wire[b].caller = p
                /\ ~wire[a].ok /\ ~wire[b].ok
                /\ wire[a].fn = wire[b].fn
                /\ wire[a].register = wire[b].register
                /\ wire[a].quantity = wire[b].quantity
                /\ wire[a].value = wire[b].value

\* the slave after the successful writes of w[1..k], applied in order
RECURSIVE Replay(_, _)
Replay(w, k) ==
    IF k = 0 THEN <<>>
    ELSE IF w[k].ok /\ w[k].fn = "WriteMultipleRegisters"
         THEN WriteMultipleRegisters(Replay(w, k - 1), w[k].register,
                                     w[k].quantity, w[k].value)
         ELSE Replay(w, k - 1)

\* C3: the transport calls of a batch are, in order, a prefix of its merged ops
\* (ascending register); an op is attempted only after the one before it
\* succeeded, so a failed op is the last one attempted; the batch then returns
\* the error with the op's 1-based index and register; and no call undoes a
\* write: the slave holds exactly what the successful writes put there.
C3_PrefixThenAbort ==
    /\ \A p \in Callers :
          IsBatch(p) =>
              LET w == WireOf(p)
                  ops == call[p].ops
              IN  /\ Len(w) <= Len(ops)
                  /\ \A k \in 1..(Len(ops) - 1) : ops[k].register <= ops[k + 1].register
                  /\ \A k \in 1..Len(w) :
                        /\ w[k].index = k
                        /\ w[k].register = ops[k].register
                        /\ w[k].quantity = ops[k].quantity
                        /\ call[p].kind = "BatchWrite" => w[k].value = ops[k].value
                        /\ k < Len(w) => w[k].ok
                  /\ (Len(w) > 0 /\ ~w[Len(w)].ok) => call[p].err = "transport"
                  /\ call[p].err = "transport"
                        => /\ Len(w) > 0
                           /\ ~w[Len(w)].ok
                           /\ call[p].errIndex = Len(w)
                           /\ call[p].errRegister = ops[Len(w)].register
                  /\ (pc[p] = "done" /\ call[p].err = "nil")
                        => (Len(w) = Len(ops) /\ \A k \in 1..Len(w) : w[k].ok)
    /\ dev = Replay(wire, Len(wire))

\* a batch of two writes returned the error of its second op, and the slave
\* holds the write of the first
C3_Witness ==
    \E p \in Callers :
        /\ pc[p] = "done"
        /\ call[p].kind = "BatchWrite"
        /\ Len(call[p].ops) = 2
        /\ call[p].err = "transport"
        /\ call[p].errIndex = 2
        /\ call[p].ops[1].register \in DOMAIN dev
        /\ call[p].ops[2].register \notin DOMAIN dev

\* the requests of BatchWrite that the differential filter retains
Retained(reqs, oldData) ==
    SelectSeq(reqs, LAMBDA w :
        \/ oldData.nil
        \/ w.register \notin DOMAIN oldData.regs
        \/ Bytes(w.value) # Bytes(oldData.regs[w.register]))

\* the call of p asks for more registers than the ceiling of its function
OverCeiling(p) ==
    CASE call[p].kind \in {"BatchRead", "Read"} ->
            \E k \in 1..Len(call[p].reqs) :
                Size(call[p].reqs[k].type) > maxFunc3Quantity
      [] call[p].kind = "BatchWrite" ->
            LET r == Retained(call[p].reqs, call[p].oldData)
            IN  \E k \in 1..Len(r) :
                    Len(Bytes(r[k].value)) \div 2 > maxFunc16Quantity
      [] call[p].kind = "Write" ->
            Len(Bytes(call[p].reqs[1].value)) \div 2 > maxFunc16Quantity
      [] OTHER -> FALSE

\* C4: a call with a request above the ceiling (2047 registers for reads, 123
\* for writes; for BatchWrite among the requests the differential filter
\* retains) makes no transport call at all and returns ErrTooManyRegisters.
C4_ValidatedBeforeWire ==
    \A p \in Callers :
        OverCeiling(p) =>
            /\ WireOf(p) = <<>>
            /\ IsBatch(p) => pc[p] = "done"
            /\ pc[p] \in {"done", "Read_locked", "Write_locked"}
                  => call[p].err = "ErrTooManyRegisters"

\* a batch of a valid request and one above the ceiling has returned, and so
\* has a single call above the ceiling
C4_Witness ==
    \E p, q \in Callers :
        /\ p # q
        /\ pc[p] = "done" /\ pc[q] = "done"
        /\ call[p].kind = "BatchWrite"
        /\ Len(call[p].reqs) = 2
        /\ Len(Bytes(call[p].reqs[1].value)) = 2
        /\ OverCeiling(p)
        /\ call[q].kind = "Read"
        /\ OverCeiling(q)

\* no transport call of a batch addresses more registers than the ceiling of
\* its function (what C6 concludes for the wire)
BatchWireWithinCeiling ==
    \A k \in 1..Len(wire) :
        /\ wire[k].kind = "BatchRead" => wire[k].quantity <= maxFunc3Quantity
        /\ wire[k].kind = "BatchWrite" => wire[k].quantity <= maxFunc16Quantity

\* C5: a write whose value has an odd number of bytes is refused with
\* ErrOddByteNumber before any transport call, so every write on the wire
\* carries exactly quantity * 2 bytes.
C5_OddRejected ==
    /\ \A k \in 1..Len(wire) :
          wire[k].fn = "WriteMultipleRegisters"
              => Len(wire[k].value) = wire[k].quantity * 2
    /\ \A p \in Callers :
          (/\ pc[p] = "done"
           /\ call[p].kind \in {"BatchWrite", "Write"}
           /\ \E k \in 1..Len(Retained(call[p].reqs, call[p].oldData)) :
                 Len(Bytes(Retained(call[p].reqs, call[p].oldData)[k].value)) % 2 = 1)
              => call[p].err \in {"ErrOddByteNumber", "ErrTooManyRegisters"}

(***************************************************************************)
(* SpecOpt: the optimizer applied to bounded batches of valid ops.         *)
(***************************************************************************)
\* read ops offered to optimizeRead: chains (2,2)(4,2)(6,1)(7,1), pairs on both
\* sides of the ceiling ((4,2)+(6,2045) = 2047, (2,4)+(6,2045) = 2049), an
\* overlap (3,1), a zero quantity and the top of the register range
ReadUniverse ==
    { readOp(2, 2), readOp(4, 2), readOp(6, 1), readOp(7, 1), readOp(2, 4),
      readOp(6, 2045), readOp(3, 1), readOp(4, 0), readOp(2051, 1),
      readOp(65534, 1), readOp(65535, 1) }

\* write requests (register, number of bytes) offered to optimizeWrite through
\* newWriteOp: (2,10)+(12,111)+(123,2) = 123, (2,10)+(12,115) = 125
WriteRequestUniverse ==
    { <<2, 2>>, <<3, 2>>, <<4, 4>>, <<2, 20>>, <<12, 222>>, <<12, 230>>,
      <<123, 4>>, <<123, 6>>, <<3, 0>>, <<6, 3>>, <<65535, 2>> }

WriteUniverse ==
    { newWriteOp(w[1], MkBytes(w[2], w[1])).op : w \in WriteRequestUniverse }

ValidInputs(kind) ==
    IF kind = "read"
    THEN { s \in SeqsUpTo(ReadUniverse, MaxOps) :
             \A k \in 1..Len(s) : readOp_validate(s[k]) = "nil" }
    ELSE { s \in SeqsUpTo(WriteUniverse, MaxOps) :
             \A k \in 1..Len(s) : writeOp_validate(s[k]) = "nil" }

CliInitValues ==
    /\ mtx = 0
    /\ pc = <<>>
    /\ call = <<>>
    /\ wire = <<>>
    /\ dev = <<>>
    /\ dev0 = <<>>

InitOpt ==
    /\ optKind \in {"read", "write"}
    /\ optIn \in ValidInputs(optKind)
    /\ optOut = <<>>
    /\ optOut2 = <<>>
    /\ optPc = "input"
    /\ CliInitValues
    /\ SliceInitValues

OptimizeRead ==
    /\ optPc = "input"
    /\ optKind = "read"
    /\ optOut' = optimizeRead(optIn)
    /\ optPc' = "optimized"
    /\ UNCHANGED <<optKind, optIn, optOut2, cliVars, slVars>>

OptimizeWrite ==
    /\ optPc = "input"
    /\ optKind = "write"
    /\ optOut' = optimizeWrite(optIn)
    /\ optPc' = "optimized"
    /\ UNCHANGED <<optKind, optIn, optOut2, cliVars, slVars>>

ReoptimizeRead ==
    /\ optPc = "optimized"
    /\ optKind = "read"
    /\ optOut2' = optimizeRead(optOut)
    /\ optPc' = "reoptimized"
    /\ UNCHANGED <<optKind, optIn, optOut, cliVars, slVars>>

ReoptimizeWrite ==
    /\ optPc = "optimized"
    /\ optKind = "write"
    /\ optOut2' = optimizeWrite(optOut)
    /\ optPc' = "reoptimized"
    /\ UNCHANGED <<optKind, optIn, optOut, cliVars, slVars>>

NextOpt ==
    \/ OptimizeRead
    \/ OptimizeWrite
    \/ ReoptimizeRead
    \/ ReoptimizeWrite

SpecOpt == InitOpt /\ [][NextOpt]_vars

(***************************************************************************)
(* Vocabulary of the optimizer's properties.                               *)
(***************************************************************************)
Ceiling(kind) == IF kind = "read" THEN maxFunc3Quantity ELSE maxFunc16Quantity

\* the registers an op addresses: [register, register + quantity)
CoverOf(op) == op.register .. (op.register + op.quantity - 1)

Cover(s) == UNION { CoverOf(s[k]) : k \in 1..Len(s) }

UniqueRegisters(s) ==
    \A a, b \in 1..Len(s) : a # b => s[a].register # s[b].register

\* no op starts before an op at a lower register has ended
NoOverlap(s) ==
    \A a, b \in 1..Len(s) :
        s[a].register < s[b].register
            => s[a].register + s[a].quantity <= s[b].register

Clean(s) == UniqueRegisters(s) /\ NoOverlap(s)

\* a batch with unique registers in ascending register order
Ascending(s) ==
    [k \in 1..Len(s) |->
        CHOOSE op \in Range(s) :
            Cardinality({o \in Range(s) : o.register < op.register}) = k - 1]

RECURSIVE SumQuantity(_, _, _)
SumQuantity(s, a, b) ==
    IF a > b THEN 0 ELSE s[a].quantity + SumQuantity(s, a + 1, b)

\* s[a..b] is a run: each op starts at the register where the one before ends
IsRun(s, a, b) ==
    \A k \in a..(b - 1) : s[k].register + s[k].quantity = s[k + 1].register

\* a run that can be extended on neither side
IsMaximalRun(s, a, b) ==
    /\ 1 <= a /\ a <= b /\ b <= Len(s)
    /\ IsRun(s, a, b)
    /\ a > 1 => ~IsRun(s, a - 1, a)
    /\ b < Len(s) => ~IsRun(s, b, b + 1)

Optimized == optPc \in {"optimized", "reoptimized"}

\* C6: every op the optimizer emits for a batch of valid ops (overlapping and
\* duplicate registers included) has a quantity within the ceiling of its
\* function, 2047 for reads and 123 for writes.
C6_OutputWithinCeiling ==
    Optimized =>
        \A k \in 1..Len(optOut) :
            /\ optOut[k].quantity <= Ceiling(optKind)
            /\ optOut[k].quantity >= 0

\* a merge was refused at the ceiling: two output ops are contiguous
C6_Witness ==
    /\ Optimized
    /\ \E k \in 1..(Len(optOut) - 1) :
          /\ optOut[k].register + optOut[k].quantity = optOut[k + 1].register
          /\ optOut[k].quantity + optOut[k + 1].quantity > Ceiling(optKind)
          /\ optOut[k].quantity < Ceiling(optKind)

Groupings(s) == SUBSET (2..Len(s))

\* every group of the grouping is a run within the ceiling
GroupingAllowed(s, starts, ceiling) ==
    \A a, b \in 1..Len(s) :
        (/\ a <= b
         /\ a = 1 \/ a \in starts
         /\ b = Len(s) \/ (b + 1) \in starts
         /\ \A c \in (a + 1)..b : c \notin starts)
            => /\ IsRun(s, a, b)
               /\ SumQuantity(s, a, b) <= ceiling

\* C9: for a batch with unique registers and no overlaps, no grouping of the
\* sorted ops into runs of contiguous ops within the ceiling has fewer groups
\* than the optimizer returns ops.
C9_Minimal ==
    (Optimized /\ Clean(optIn) /\ Len(optIn) >= 1) =>
        \A starts \in Groupings(Ascending(optIn)) :
            GroupingAllowed(Ascending(optIn), starts, Ceiling(optKind))
                => Len(optOut) <= Cardinality(starts) + 1

\* a clean batch with a merge and a split: a smaller grouping is conceivable
C9_Witness ==
    /\ Optimized
    /\ Clean(optIn)
    /\ Len(optIn) >= 3
    /\ Len(optOut) = 2
    /\ IsRun(Ascending(optIn), 1, Len(optIn))

\* C10: running the optimizer on its own output gives that output back, for
\* every batch of valid ops (overlaps and duplicate registers included).
C10_FixedPoint ==
    optPc = "reoptimized" => optOut2 = optOut

\* the same for the batches in which every op has a quantity of at least 1
FixedPointOfPositiveQuantities ==
    (optPc = "reoptimized" /\ \A k \in 1..Len(optIn) : optIn[k].quantity >= 1)
        => optOut2 = optOut

\* every op of the batch carries quantity * 2 bytes
WholeRegisters(s) ==
    \A k \in 1..Len(s) : Len(s[k].value) = 2 * s[k].quantity

\* the bytes of value that belong to the quantity registers from register on,
\* value being the bytes of an op that starts at base
ValueAt(value, base, register, quantity) ==
    SubSeq(value, (register - base) * 2 + 1, (register - base) * 2 + quantity * 2)

\* C11: for a write batch with unique registers and no overlaps in which every
\* op carries quantity * 2 bytes, every output op carries quantity * 2 bytes,
\* and every input op lies within exactly one output op, whose value holds the
\* input op's bytes at the offset (register - output register) * 2.
C11_MergedValueConcatenated ==
    (Optimized /\ optKind = "write" /\ Clean(optIn) /\ WholeRegisters(optIn)) =>
        /\ WholeRegisters(optOut)
        /\ \A a \in 1..Len(optIn) :
              \E k \in 1..Len(optOut) :
                  /\ optOut[k].register <= optIn[a].register
                  /\ optIn[a].register + optIn[a].quantity
                        <= optOut[k].register + optOut[k].quantity
                  /\ ValueAt(optOut[k].value, optOut[k].register,
                             optIn[a].register, optIn[a].quantity) = optIn[a].value
                  /\ optIn[a].quantity >= 1 =>
                        \A m \in 1..Len(optOut) :
                            CoverOf(optOut[m]) \cap CoverOf(optIn[a]) # {} => m = k

\* three writes given out of order became one op of three values
C11_Witness ==
    /\ Optimized
    /\ optKind = "write"
    /\ Clean(optIn)
    /\ WholeRegisters(optIn)
    /\ Len(optIn) >= 3
    /\ optIn # Ascending(optIn)
    /\ \E k \in 1..Len(optOut) :
          /\ optOut[k].quantity
                = optIn[1].quantity + optIn[2].quantity + optIn[3].quantity
          /\ \A a \in 1..3 : optIn[a].quantity >= 1
          /\ optOut[k].value # optIn[1].value \o optIn[2].value \o optIn[3].value

\* the input ops, in sorted order, that the assignment f gives to output op k
AssignedTo(f, k) == { a \in DOMAIN f : f[a] = k }

\* the sum of the quantities of the ops of s at the indices G
RECURSIVE SumOver(_, _)
SumOver(s, G) ==
    IF G = {} THEN 0
    ELSE LET a == CHOOSE x \in G : TRUE
         IN  s[a].quantity + SumOver(s, G \ {a})

\* out is what merging the ops of s at the indices G, taken in order, gives:
\* each op starts exactly where the ops before it end
MergeOf(s, G, out) ==
    /\ G # {}
    /\ \A a \in G :
          s[a].register
              = out.register + SumOver(s, { b \in G : b < a })
    /\ out.quantity = SumOver(s, G)

\* C12: for every batch of valid ops, overlapping ones included, every input
\* op is represented in the output exactly once: the input ops can be
\* assigned to the output ops so that every output op is one input op or the
\* merge of exactly adjacent input ops, and no input op is dropped, merged
\* into an op it is not adjacent to, or represented twice.
C12_OverlapsPassThrough ==
    Optimized =>
        LET S == sortByRegister(optIn)
        IN  \E f \in [1..Len(S) -> 1..Len(optOut)] :
                \A k \in 1..Len(optOut) : MergeOf(S, AssignedTo(f, k), optOut[k])

\* the same for the batches with unique registers and no overlaps
EveryOpOnceWithoutOverlaps ==
    (Optimized /\ Clean(optIn)) =>
        LET S == sortByRegister(optIn)
        IN  \E f \in [1..Len(S) -> 1..Len(optOut)] :
                \A k \in 1..Len(optOut) : MergeOf(S, AssignedTo(f, k), optOut[k])

\* a snapshot was supplied and holds exactly the bytes of the write at its register
MatchesSnapshot(w, oldData) ==
    /\ ~oldData.nil
    /\ w.register \in DOMAIN oldData.regs
    /\ Bytes(w.value) = Bytes(oldData.regs[w.register])

\* the registers a write request addresses
RegistersOf(w) == w.register .. (w.register + Len(Bytes(w.value)) \div 2 - 1)

\* the registers the transport writes of caller p have touched
WrittenBy(p) ==
    UNION { CoverOf(wire[k]) :
              k \in { x \in 1..Len(wire) :
                        wire[x].caller = p /\ wire[x].fn = "WriteMultipleRegisters" } }

\* the registers of the requests of p's batch that do not match the snapshot
RetainedRegisters(p) ==
    UNION { RegistersOf(call[p].reqs[k]) :
              k \in { x \in 1..Len(call[p].reqs) :
                        ~MatchesSnapshot(call[p].reqs[x], call[p].oldData) } }

\* C13: BatchWrite retains a write request if and only if no snapshot was
\* supplied, its register is absent from the snapshot, or its bytes differ
\* from the snapshot's value: the transport writes of a BatchWrite touch only
\* registers of such requests, a BatchWrite that returned without error has
\* written exactly their registers, and a request whose bytes match the
\* snapshot has nothing written on its behalf.
C13_DifferentialFilter ==
    \A p \in Callers :
        call[p].kind = "BatchWrite" =>
            /\ WrittenBy(p) \subseteq RetainedRegisters(p)
            /\ (pc[p] = "done" /\ call[p].err = "nil")
                  => WrittenBy(p) = RetainedRegisters(p)
            /\ \A k \in 1..Len(call[p].reqs) :
                  MatchesSnapshot(call[p].reqs[k], call[p].oldData)
                      => \A x \in 1..Len(wire) :
                            (wire[x].caller = p /\ wire[x].register = call[p].reqs[k].register)
                                => \E m \in 1..Len(call[p].reqs) :
                                      /\ call[p].reqs[m].register = wire[x].register
                                      /\ ~MatchesSnapshot(call[p].reqs[m], call[p].oldData)

\* a BatchWrite with a snapshot returned without error: one request matched
\* the snapshot and was not written, one differed from it and was written
C13_Witness ==
    \E p \in Callers :
        /\ call[p].kind = "BatchWrite"
        /\ pc[p] = "done"
        /\ call[p].err = "nil"
        /\ ~call[p].oldData.nil
        /\ \E a, b \in 1..Len(call[p].reqs) :
              /\ MatchesSnapshot(call[p].reqs[a], call[p].oldData)
              /\ call[p].reqs[a].register \notin WrittenBy(p)
              /\ ~MatchesSnapshot(call[p].reqs[b], call[p].oldData)
              /\ call[p].reqs[b].register \in DOMAIN call[p].oldData.regs
              /\ call[p].reqs[b].register \in WrittenBy(p)

(***************************************************************************)
(* SpecSlice: containers.Slice on its own.  Init draws a small buffer, the *)
(* actions call Set and Get on it with offsets and sizes below, inside and *)
(* beyond the buffer, the largest int included.                            *)
(***************************************************************************)
MaxBuf == 3
MaxData == 2
MaxSliceCalls == 2

\* a buffer of n bytes 3, 4, 5, ...
SliceOfLen(n) == [len |-> n, at |-> [o \in 0..(n - 1) |-> o + 3]]

SliceUniverse == { SliceOfLen(n) : n \in 0..MaxBuf }

SliceOffsets == ((0 - 2)..(MaxBuf + 1)) \cup {IntMax}

SliceSizes == ((0 - 1)..(MaxBuf + 1)) \cup {IntMax - 1, IntMax}

SliceData == SeqsUpTo({100, 200}, MaxData)

InitSlice ==
    /\ slBuf \in SliceUniverse
    /\ slCall = NoSliceCall
    /\ slSteps = 0
    /\ optKind = "none"
    /\ optIn = <<>>
    /\ optOut = <<>>
    /\ optOut2 = <<>>
    /\ optPc = "off"
    /\ CliInitValues

\* n := s.Set(offset, data)
SliceSet ==
    /\ slSteps < MaxSliceCalls
    /\ \E offset \in SliceOffsets, data \in SliceData :
          LET r == Slice_Set(slBuf, offset, data)
          IN  /\ slBuf' = r.s
              /\ slCall' = [NoSliceCall EXCEPT
                               !.op = "Set", !.offset = offset, !.data = data,
                               !.before = slBuf, !.n = r.n]
    /\ slSteps' = slSteps + 1
    /\ UNCHANGED <<optVars, cliVars>>

\* b := s.Get(offset, size)
SliceGet ==
    /\ slSteps < MaxSliceCalls
    /\ \E offset \in SliceOffsets, size \in SliceSizes :
          LET r == Slice_Get(slBuf, offset, size)
          IN  slCall' = [NoSliceCall EXCEPT
                            !.op = "Get", !.offset = offset, !.size = size,
                            !.before = slBuf, !.bytes = r.bytes, !.panic = r.panic]
    /\ slSteps' = slSteps + 1
    /\ UNCHANGED <<slBuf, optVars, cliVars>>

NextSlice ==
    \/ SliceSet
    \/ SliceGet

SpecSlice == InitSlice /\ [][NextSlice]_vars

\* C14: Set(offset, data) returns 0 and leaves the buffer as it is when
\* offset < 0 or offset >= len(buffer); otherwise it returns
\* min(len(data), len(buffer) - offset), overwrites the bytes
\* [offset, offset + count) with the first count bytes of data and leaves every
\* other byte and the length of the buffer unchanged.
C14_SetTotal ==
    slCall.op = "Set" =>
        LET before == SliceBytes(slCall.before)
            after == SliceBytes(slBuf)
            offset == slCall.offset
            data == slCall.data
            count == slCall.n
        IN  /\ Len(after) = Len(before)
            /\ (offset < 0 \/ offset >= Len(before))
                  => (count = 0 /\ after = before)
            /\ (offset >= 0 /\ offset < Len(before))
                  => /\ count = Min(Len(data), Len(before) - offset)
                     /\ \A k \in 1..Len(before) :
                           after[k] = IF k - 1 >= offset /\ k - 1 < offset + count
                                      THEN data[k - offset]
                                      ELSE before[k]

\* a Set inside the buffer that copied a part of data only, and a Set on a
\* buffer that an earlier Set has written
C14_Witness ==
    /\ slCall.op = "Set"
    /\ slCall.offset > 0
    /\ slCall.n >= 1
    /\ slCall.n < Len(slCall.data)
    /\ SliceBytes(slBuf) # SliceBytes(slCall.before)
    /\ slSteps = 2

\* C15: Get(offset, size) never fails for any int offset and size: it returns
\* nothing when offset < 0, size < 0 or offset >= len(buffer), the bytes from
\* offset to the end when offset + size exceeds the buffer and the size bytes
\* from offset otherwise, and leaves the buffer as it is.
C15_GetTotal ==
    slCall.op = "Get" =>
        LET buffer == SliceBytes(slCall.before)
            offset == slCall.offset
            size == slCall.size
        IN  /\ ~slCall.panic
            /\ slBuf = slCall.before
            /\ slCall.bytes =
                  IF offset < 0 \/ size < 0 \/ offset >= Len(buffer) THEN <<>>
                  ELSE IF size > Len(buffer) - offset
                       THEN SubSeq(buffer, offset + 1, Len(buffer))
                       ELSE SubSeq(buffer, offset + 1, offset + size)

\* the same for the calls in which offset + size is an int
GetTotalWithoutOverflow ==
    (slCall.op = "Get" /\ (slCall.offset <= 0 \/ slCall.size <= IntMax - slCall.offset))
        => /\ ~slCall.panic
           /\ slBuf = slCall.before
           /\ LET buffer == SliceBytes(slCall.before)
                  offset == slCall.offset
                  size == slCall.size
              IN  slCall.bytes =
                     IF offset < 0 \/ size < 0 \/ offset >= Len(buffer) THEN <<>>
                     ELSE IF size > Len(buffer) - offset
                          THEN SubSeq(buffer, offset + 1, Len(buffer))
                          ELSE SubSeq(buffer, offset + 1, offset + size)

(***************************************************************************)
(* SpecSolo: one caller making one BatchRead or BatchWrite against a slave *)
(* whose registers hold known bytes, with requests over the whole register *)
(* range and snapshots that agree or disagree with the slave.              *)
(***************************************************************************)
MaxSoloBatch == 3

\* reads: a float at 2..3 and a word at 4 (contiguous), a word at 9, words at
\* the registers 32767, 32768 and 65535, and a two-register value at 32767
SoloReadRequests ==
    { Read(2, Float32CDABType), Read(4, Uint16Type), Read(9, Uint16Type),
      Read(32767, Uint16Type), Read(32767, RawType(2)), Read(32768, Uint16Type),
      Read(65535, Uint16Type) }

\* writes: words at 2 and 3, a float at 4..5, a word at 9
SoloWriteRequests ==
    { Write(2, Uint16(515)), Write(3, Uint16(1029)),
      Write(4, Float32CDAB(327684)), Write(9, Uint16(9)) }

\* the slave before the call: every register r holding r, or 515 at 2 and 7 at 3
Devices ==
    { <<>>, [r \in {2, 3} |-> IF r = 2 THEN PutUint16(515) ELSE PutUint16(7)] }

\* oldData: none, one snapshot that is right for the second slave, and one
\* that is right for the first
SoloSnapshots ==
    { Nil,
      [nil |-> FALSE,
       regs |-> [r \in {2, 3} |-> IF r = 2 THEN Uint16(515) ELSE Uint16(7)]],
      [nil |-> FALSE,
       regs |-> [r \in {2, 4, 9} |->
                   CASE r = 2 -> Uint16(2)
                     [] r = 4 -> Float32CDAB(327684)
                     [] OTHER -> Uint16(9)]] }

InitSolo ==
    /\ mtx = 0
    /\ pc = [p \in {1} |-> "idle"]
    /\ call = [p \in {1} |-> NoCall]
    /\ wire = <<>>
    /\ dev0 \in Devices
    /\ dev = dev0
    /\ optKind = "none"
    /\ optIn = <<>>
    /\ optOut = <<>>
    /\ optOut2 = <<>>
    /\ optPc = "off"
    /\ SliceInitValues

NextSolo ==
    \/ \E ops \in SeqsUpTo(SoloReadRequests, MaxSoloBatch) : BatchRead_call(1, ops)
    \/ batchRead_lock(1)
    \/ \E ok \in BOOLEAN : batchRead_iter(1, ok)
    \/ batchRead_return(1)
    \/ \E ops \in SeqsUpTo(SoloWriteRequests, MaxSoloBatch), oldData \in SoloSnapshots :
          BatchWrite_call(1, ops, oldData)
    \/ batchWrite_lock(1)
    \/ \E ok \in BOOLEAN : batchWrite_iter(1, ok)
    \/ batchWrite_return(1)

SpecSolo == InitSolo /\ [][NextSolo]_vars

\* the call of the caller has returned and every transport call of it succeeded
Succeeded(kind) ==
    /\ call[1].kind = kind
    /\ pc[1] = "done"
    /\ \A k \in 1..Len(wire) : wire[k].ok

\* the read requests as the registers they ask for
AskedOps(reqs) == [k \in 1..Len(reqs) |-> readOp(reqs[k].register, Size(reqs[k].type))]

\* C16: for a BatchRead of valid requests with unique registers and no
\* overlaps, at any registers of the 16-bit range, whose transport reads all
\* succeed with quantity * 2 bytes each: the call returns no error and a map
\* with one entry per requested register r, the conversion of the bytes the
\* slave holds at r .. r + size - 1.
C16_WholeRangeAligned ==
    (/\ Succeeded("BatchRead")
     /\ Clean(AskedOps(call[1].reqs))
     /\ \A k \in 1..Len(call[1].reqs) :
           /\ Size(call[1].reqs[k].type) <= maxFunc3Quantity
           /\ call[1].reqs[k].register + Size(call[1].reqs[k].type) <= Uint16Mod)
        => /\ call[1].err = "nil"
           /\ DOMAIN call[1].values
                 = { call[1].reqs[k].register : k \in 1..Len(call[1].reqs) }
           /\ \A k \in 1..Len(call[1].reqs) :
                 LET req == call[1].reqs[k]
                 IN  call[1].values[req.register]
                        = Converter(req.type,
                                    ReadHoldingRegisters(dev0, req.register,
                                                         Size(req.type))).value

\* the same for the requests that end at or below register 32768
AlignedBelowHalfRange ==
    (/\ Succeeded("BatchRead")
     /\ Clean(AskedOps(call[1].reqs))
     /\ \A k \in 1..Len(call[1].reqs) :
           /\ Size(call[1].reqs[k].type) <= maxFunc3Quantity
           /\ (call[1].reqs[k].register + Size(call[1].reqs[k].type)) * 2 <= maxUint16)
        => /\ call[1].err = "nil"
           /\ DOMAIN call[1].values
                 = { call[1].reqs[k].register : k \in 1..Len(call[1].reqs) }
           /\ \A k \in 1..Len(call[1].reqs) :
                 LET req == call[1].reqs[k]
                 IN  call[1].values[req.register]
                        = Converter(req.type,
                                    ReadHoldingRegisters(dev0, req.register,
                                                         Size(req.type))).value

\* a merged read below register 32768 was split back into its requests
AlignedBelowHalfRange_Witness ==
    /\ Succeeded("BatchRead")
    /\ call[1].err = "nil"
    /\ Len(call[1].reqs) = 3
    /\ Len(call[1].ops) = 2
    /\ Cardinality(DOMAIN call[1].values) = 3
    /\ 32767 \in DOMAIN call[1].values

\* every entry of the snapshot is the bytes slave d holds from its register on
Accurate(oldData, d) ==
    oldData.nil
        \/ \A r \in DOMAIN oldData.regs :
              Bytes(oldData.regs[r])
                  = ReadHoldingRegisters(d, r, Len(Bytes(oldData.regs[r])) \div 2)

\* the slave after the writes of ops, first to last, have all succeeded
RECURSIVE ApplyWrites(_, _, _)
ApplyWrites(d, ops, k) ==
    IF k > Len(ops) THEN d
    ELSE ApplyWrites(WriteMultipleRegisters(d, ops[k].register, ops[k].quantity,
                                            ops[k].value),
                     ops, k + 1)

\* what a successful BatchWrite(reqs, nil) sends: every request, optimized
UnfilteredOps(reqs) == optimizeWrite(convertAll(reqs, 1, <<>>).ops)

\* the write requests as the registers they address
TargetedOps(reqs) ==
    [k \in 1..Len(reqs) |->
        readOp(reqs[k].register, Len(Bytes(reqs[k].value)) \div 2)]

\* the number of registers the transport writes of the caller carried
RegistersWritten ==
    LET q == [k \in 1..Len(wire) |-> [quantity |-> wire[k].quantity]]
    IN  SumQuantity(q, 1, Len(q))

\* C17: with a snapshot whose every entry is what the slave holds at that
\* register, a successful BatchWrite(ops, snapshot) of valid requests with
\* unique registers and no overlaps leaves the slave as a successful
\* BatchWrite(ops, nil) leaves it: every targeted register holds the requested
\* bytes, every other register is unchanged, and the call writes no more
\* registers than the unfiltered call.
C17_DifferentialTransparent ==
    (/\ Succeeded("BatchWrite")
     /\ call[1].err = "nil"
     /\ Accurate(call[1].oldData, dev0)
     /\ Clean(TargetedOps(call[1].reqs))
     /\ convertAll(call[1].reqs, 1, <<>>).err = "nil"
     /\ \A k \in 1..Len(call[1].reqs) : Len(Bytes(call[1].reqs[k].value)) % 2 = 0)
        => LET reqs == call[1].reqs
               unfiltered == ApplyWrites(dev0, UnfilteredOps(reqs), 1)
               registers == (DOMAIN dev) \cup (DOMAIN unfiltered) \cup (DOMAIN dev0)
                               \cup Cover(TargetedOps(reqs))
           IN  /\ \A r \in registers : RegBytes(dev, r) = RegBytes(unfiltered, r)
               /\ \A k \in 1..Len(reqs) :
                     ReadHoldingRegisters(dev, reqs[k].register,
                                          Len(Bytes(reqs[k].value)) \div 2)
                         = Bytes(reqs[k].value)
               /\ \A r \in registers \ Cover(TargetedOps(reqs)) :
                     RegBytes(dev, r) = RegBytes(dev0, r)
               /\ RegistersWritten <= SumQuantity(UnfilteredOps(reqs), 1,
                                                  Len(UnfilteredOps(reqs)))

\* a BatchWrite with an accurate snapshot returned without error: it dropped a
\* request, wrote another one whose register the snapshot holds, changed the
\* slave, and wrote fewer registers than the requests address
C17_Witness ==
    /\ Succeeded("BatchWrite")
    /\ call[1].err = "nil"
    /\ ~call[1].oldData.nil
    /\ Accurate(call[1].oldData, dev0)
    /\ Clean(TargetedOps(call[1].reqs))
    /\ Len(call[1].reqs) = 3
    /\ \E a, b \in 1..Len(call[1].reqs) :
          /\ MatchesSnapshot(call[1].reqs[a], call[1].oldData)
          /\ ~MatchesSnapshot(call[1].reqs[b], call[1].oldData)
          /\ call[1].reqs[b].register \in DOMAIN call[1].oldData.regs
    /\ dev # dev0
    /\ RegistersWritten >= 1
    /\ RegistersWritten < Cardinality(Cover(TargetedOps(call[1].reqs)))

(***************************************************************************)
(* SpecLive: two callers, each making one call that runs to its end.  The  *)
(* calls take every path through the lock: a batch that succeeds, a batch  *)
(* that is refused before the lock, a batch aborted by a transport error,  *)
(* and a Read / Write that succeeds, fails on the wire or is refused under *)
(* the lock.  The callers' goroutines keep running, every transport call   *)
(* returns, and the mutex is fair: a caller that can take the mutex again  *)
(* and again does take it.                                                 *)
(***************************************************************************)
LiveReadBatches ==
    { <<Read(2, Float32CDABType), Read(9, Float32Type)>>,
      <<Read(4, Uint16Type), Read(7, RawType(2048))>> }

LiveWriteBatches ==
    { <<Write(2, Uint16(515)), Write(5, Raw(MkBytes(3, 5)))>>,
      <<Write(3, Uint16(1029)), Write(8, Raw(MkBytes(248, 8)))>> }

LiveReads == { Read(4, Uint16Type), Read(7, RawType(2048)) }

LiveWrites == { Write(3, Uint16(1029)), Write(8, Raw(MkBytes(248, 8))) }

NextLive ==
    \/ \E p \in Callers, ops \in LiveReadBatches : BatchRead_call(p, ops)
    \/ \E p \in Callers : batchRead_lock(p)
    \/ \E p \in Callers, ok \in BOOLEAN : batchRead_iter(p, ok)
    \/ \E p \in Callers : batchRead_return(p)
    \/ \E p \in Callers, ops \in LiveWriteBatches : BatchWrite_call(p, ops, Nil)
    \/ \E p \in Callers : batchWrite_lock(p)
    \/ \E p \in Callers, ok \in BOOLEAN : batchWrite_iter(p, ok)
    \/ \E p \in Callers : batchWrite_return(p)
    \/ \E p \in Callers, r \in LiveReads : Read_call(p, r.register, r.type)
    \/ \E p \in Callers : Read_lock(p)
    \/ \E p \in Callers, ok \in BOOLEAN : Read_transport(p, ok)
    \/ \E p \in Callers : Read_return(p)
    \/ \E p \in Callers, w \in LiveWrites : Write_call(p, w.register, w.value)
    \/ \E p \in Callers : Write_lock(p)
    \/ \E p \in Callers, ok \in BOOLEAN : Write_transport(p, ok)
    \/ \E p \in Callers : Write_return(p)

\* c.mtx.Lock() of caller p returning
Acquire(p) ==
    \/ batchRead_lock(p)
    \/ batchWrite_lock(p)
    \/ Read_lock(p)
    \/ Write_lock(p)

\* a step of caller p inside its locked section: a transport call that
\* returns, or the return of the method
Proceed(p) ==
    \/ \E ok \in BOOLEAN : batchRead_iter(p, ok)
    \/ batchRead_return(p)
    \/ \E ok \in BOOLEAN : batchWrite_iter(p, ok)
    \/ batchWrite_return(p)
    \/ \E ok \in BOOLEAN : Read_transport(p, ok)
    \/ Read_return(p)
    \/ \E ok \in BOOLEAN : Write_transport(p, ok)
    \/ Write_return(p)

SpecLive ==
    /\ Init
    /\ [][NextLive]_vars
    /\ \A p \in Callers : SF_vars(Acquire(p)) /\ WF_vars(Proceed(p))

\* caller p has been called and has not returned
Called(p) == pc[p] \notin {"idle", "done"}

\* C18: a call that has returned does not hold the mutex, whatever way it
\* returned; the mutex is only ever taken when it is free, by a caller waiting
\* for it; a batch is validated and optimized in a step that neither takes
\* nor holds the mutex; and every caller that waits for the mutex gets it,
\* and every call returns.
C18_LockAlwaysReleased ==
    /\ [](\A p \in Callers : pc[p] \in {"idle", "done"} => mtx # p)
    /\ [][\A p \in Callers :
             (mtx' = p /\ mtx # p) => (mtx = 0 /\ WaitsForLock(p) /\ HoldsLock(p)')]_vars
    /\ [][\A p \in Callers :
             (pc[p] = "idle" /\ IsBatch(p)')
                 => /\ mtx' = mtx
                    /\ mtx # p
                    /\ pc'[p] \in {"done", "batchRead_lock", "batchWrite_lock"}
                    /\ pc'[p] = "done" => call'[p].err # "nil"]_vars
    /\ [][\A p \in Callers :
             (IsBatch(p) /\ Called(p)) => call'[p].ops = call[p].ops]_vars
    /\ \A p \in Callers : WaitsForLock(p) ~> HoldsLock(p)
    /\ \A p \in Callers : Called(p) ~> (pc[p] = "done" /\ mtx # p)

\* a batch was aborted by a transport error at its second op and returned; the
\* other caller, whose Read is refused under the lock, has the mutex after it
C18_Witness ==
    \E p, q \in Callers :
        /\ pc[p] = "done"
        /\ IsBatch(p)
        /\ call[p].err = "transport"
        /\ call[p].errIndex = 2
        /\ mtx = q
        /\ pc[q] = "Read_locked"
        /\ call[q].err = "ErrTooManyRegisters"

====
